---- MODULE Spec2Model ----
(***************************************************************************)
(* A model of the k/simple interpreter: the tokenizer (token.rs), the      *)
(* value model (value.rs), the verb and adverb tables (runtime.rs), the    *)
(* evaluator and the line loop (repl.rs).                                  *)
(*                                                                         *)
(* Integers are two's-complement words of Bits bits; the program uses      *)
(* 64-bit words, which TLC's integers cannot hold, so the word is scaled   *)
(* down and every arithmetic step wraps, overflows or panics at the scaled *)
(* limits exactly where the program does at the 64-bit ones.               *)
(* A byte is a one-character string, a line a sequence of bytes.           *)
(***************************************************************************)
EXTENDS Integers, Sequences, FiniteSets, TLC

VARIABLES
    globals,   \* Runtime.globals: slot index 0..25 -> Value
    heap,      \* number of vector storages allocated so far (Rc::new)
    line,      \* the bytes of the line last handed to process_line
    tokens,    \* the tokens tokenize_line made of it (<<>> when none)
    result,    \* the value evaluate_expression returned for it (NoValue when not run)
    diags,     \* the diagnostics report_error printed while handling it
    calls,     \* the verb applications made while handling it, in order
    stdout,    \* the bytes process_line printed for it, diagnostics apart
    nlines,    \* lines handled so far
    running,   \* process_line's return value: FALSE once the loop has ended
    aborted    \* TRUE once a panic has unwound the process

vars == <<globals, heap, line, tokens, result, diags, calls, stdout, nlines, running, aborted>>

\* ---------------------------------------------------------------- bounds

\* Width of the integer word standing for i64.
Bits == 5
\* Lines a run of the line loop handles.
MaxLines == 3

\* ---------------------------------------------------------------- i64

IntMin == -(2 ^ (Bits - 1))
IntMax == (2 ^ (Bits - 1)) - 1
Modulus == 2 ^ Bits

\* A product or sum of two words, reduced to the word.
Wrap(x) == ((x - IntMin + Modulus * Modulus) % Modulus) + IntMin

wrapping_add(a, b) == Wrap(a + b)
wrapping_mul(a, b) == Wrap(a * b)
wrapping_neg(a) == Wrap(0 - a)

Abs(x) == IF x < 0 THEN 0 - x ELSE x

\* Rust's `%`: the remainder has the sign of the dividend.  The caller
\* excludes a zero divisor and the overflowing pair (IntMin, -1).
Rem(a, m) == IF a >= 0 THEN a % Abs(m) ELSE 0 - (Abs(a) % Abs(m))

\* i64::MIN % -1 panics ("attempt to calculate the remainder with overflow").
RemOverflows(a, m) == a = IntMin /\ m = -1

Unsigned(x) == IF x < 0 THEN x + Modulus ELSE x
Signed(u) == IF u > IntMax THEN u - Modulus ELSE u

RECURSIVE BitOp(_, _, _, _)
BitOp(isAnd, x, y, n) ==
    IF n = 0 THEN 0
    ELSE LET bx == x % 2
             by == y % 2
             b == IF isAnd THEN bx * by ELSE (IF bx + by > 0 THEN 1 ELSE 0)
         IN b + 2 * BitOp(isAnd, x \div 2, y \div 2, n - 1)

BitAnd(a, b) == Signed(BitOp(TRUE, Unsigned(a), Unsigned(b), Bits))
BitOr(a, b) == Signed(BitOp(FALSE, Unsigned(a), Unsigned(b), Bits))

\* ---------------------------------------------------------------- value.rs

Atom(i) == [tag |-> "Atom", int |-> i, vec |-> <<>>, ptr |-> 0]
\* Vector(Rc<Vec<i64>>): the elements and the identity of the shared storage.
Vector(s, p) == [tag |-> "Vector", int |-> 0, vec |-> s, ptr |-> p]
Error == [tag |-> "Error", int |-> 0, vec |-> <<>>, ptr |-> 0]
\* Not a Value: the outcome of a call that panicked and is unwinding.
Panic == [tag |-> "Panic", int |-> 0, vec |-> <<>>, ptr |-> 0]
\* Not a Value: no evaluation was run.
NoValue == [tag |-> "None", int |-> 0, vec |-> <<>>, ptr |-> 0]

\* From<Vec<i64>>: Rc::new gives storage no other live vector has.  Storage
\* 0 is the one not yet named; the evaluator names it when it receives it.
FromVec(s) == Vector(s, 0)

is_error(v) == v.tag = "Error"
IsPanic(v) == v.tag = "Panic"

\* Value::enlist: Ok(value) or Err(()).
enlist(v) ==
    CASE v.tag = "Atom" -> [ok |-> TRUE, v |-> FromVec(<<v.int>>)]
      [] v.tag = "Vector" -> [ok |-> FALSE, v |-> Error]
      [] OTHER -> [ok |-> TRUE, v |-> Error]

\* Value::reverse.
reverse(v) ==
    CASE v.tag = "Atom" -> [ok |-> FALSE, v |-> Error]
      [] v.tag = "Vector" ->
            [ok |-> TRUE,
             v |-> FromVec([i \in 1..Len(v.vec) |-> v.vec[Len(v.vec) + 1 - i]])]
      [] OTHER -> [ok |-> TRUE, v |-> Error]

\* The functions passed as `verb: fn(i64, i64) -> i64`, by name.
Equal01(a, b) == IF a = b THEN 1 ELSE 0
NotEqual01(a, b) == IF a # b THEN 1 ELSE 0

Fn(name, a, b) ==
    CASE name = "wrapping_add" -> wrapping_add(a, b)
      [] name = "equal" -> Equal01(a, b)
      [] name = "not_equal" -> NotEqual01(a, b)
      [] name = "and" -> BitAnd(a, b)
      [] name = "or" -> BitOr(a, b)
      [] name = "wrapping_mul" -> wrapping_mul(a, b)

\* Value::apply_dyadic_verb(self, other, verb).  The (Atom, Vector) arm
\* calls itself with the operands swapped, so verb gets (element, atom).
Value_apply_dyadic_verb(self, other, name) ==
    CASE self.tag = "Atom" /\ other.tag = "Atom" ->
            [ok |-> TRUE, v |-> Atom(Fn(name, self.int, other.int))]
      [] self.tag = "Vector" /\ other.tag = "Atom" ->
            [ok |-> TRUE,
             v |-> FromVec([i \in 1..Len(self.vec) |-> Fn(name, self.vec[i], other.int)])]
      [] self.tag = "Atom" /\ other.tag = "Vector" ->
            [ok |-> TRUE,
             v |-> FromVec([i \in 1..Len(other.vec) |-> Fn(name, other.vec[i], self.int)])]
      [] self.tag = "Vector" /\ other.tag = "Vector" ->
            IF Len(self.vec) # Len(other.vec)
            THEN [ok |-> FALSE, v |-> Error]
            ELSE [ok |-> TRUE,
                  v |-> FromVec([i \in 1..Len(self.vec) |-> Fn(name, self.vec[i], other.vec[i])])]
      [] OTHER -> [ok |-> TRUE, v |-> Error]

\* impl Neg for Value.
Neg(v) ==
    CASE v.tag = "Atom" -> Atom(wrapping_neg(v.int))
      [] v.tag = "Vector" -> FromVec([i \in 1..Len(v.vec) |-> wrapping_neg(v.vec[i])])
      [] OTHER -> Error

\* The decimal digits of a natural number, as bytes.
DigitBytes == <<"0", "1", "2", "3", "4", "5", "6", "7", "8", "9">>

RECURSIVE Decimal(_)
Decimal(n) ==
    IF n < 10 THEN <<DigitBytes[n + 1]>>
    ELSE Decimal(n \div 10) \o <<DigitBytes[(n % 10) + 1]>>

\* write!(f, "{}", integer) for an i64.
FormatInt(i) == IF i < 0 THEN <<"-">> \o Decimal(0 - i) ELSE Decimal(i)

RECURSIVE FormatVec(_)
FormatVec(s) ==
    IF s = <<>> THEN <<>>
    ELSE FormatInt(Head(s)) \o <<" ">> \o FormatVec(Tail(s))

\* impl Display for Value.
Display(v) ==
    CASE v.tag = "Atom" -> FormatInt(v.int)
      [] v.tag = "Vector" -> FormatVec(v.vec)
      [] OTHER -> <<"E", "r", "r", "o", "r">>

\* ---------------------------------------------------------------- runtime.rs: errors

\* What a verb hands back: its value (or Panic) and the diagnostics it printed.
Ok(v) == [v |-> v, d |-> <<>>]

\* Runtime::report_error: prints "<function>:<caller line> <message>" and
\* returns Value::Error.
report_error(function_name, at, message) ==
    [v |-> Error, d |-> <<[fn |-> function_name, line |-> at, msg |-> message]>>]

rank_error(function_name, at) == report_error(function_name, at, "rank")
domain_error(function_name, at) == report_error(function_name, at, "domain")
length_error(function_name, at) == report_error(function_name, at, "length")
parse_error(function_name, at) == report_error(function_name, at, "parse")
not_implemented_error(function_name, at) == report_error(function_name, at, "nyi")

\* ---------------------------------------------------------------- runtime.rs: verbs

monadic_not_a_verb(value) == domain_error("monadic_not_a_verb", 110)
dyadic_not_a_verb(left, right) == domain_error("dyadic_not_a_verb", 114)
monadic_not_implemented(value) == not_implemented_error("monadic_not_implemented", 118)

monadic_negate(value) == Ok(Neg(value))

monadic_enumerate(value) ==
    CASE value.tag = "Atom" ->
            IF value.int < 0 THEN domain_error("monadic_enumerate", 130)
            ELSE Ok(FromVec([i \in 1..value.int |-> i - 1]))
      [] value.tag = "Vector" -> rank_error("monadic_enumerate", 133)
      [] OTHER -> Ok(Error)

monadic_count(value) ==
    CASE value.tag = "Atom" -> rank_error("monadic_count", 141)
      [] value.tag = "Vector" -> Ok(Atom(Len(value.vec)))
      [] OTHER -> Ok(Error)

\* .unwrap_or_else(|_| runtime.rank_error(..)) and the same with
\* domain_error, on the Result r of a Value method.
unwrap_or_rank_error(r, function_name, at) ==
    IF r.ok THEN Ok(r.v) ELSE rank_error(function_name, at)
unwrap_or_domain_error(r, function_name, at) ==
    IF r.ok THEN Ok(r.v) ELSE domain_error(function_name, at)

monadic_enlist(value) == unwrap_or_rank_error(enlist(value), "monadic_enlist", 151)

monadic_reverse(value) == unwrap_or_rank_error(reverse(value), "monadic_reverse", 158)

dyadic_add(left, right) ==
    unwrap_or_domain_error(Value_apply_dyadic_verb(left, right, "wrapping_add"),
                           "dyadic_add", 169)

dyadic_subtract(left, right) == dyadic_add(left, Neg(right))

dyadic_modulo(left, right) ==
    IF is_error(left) \/ is_error(right) THEN Ok(Error)
    ELSE IF ~(left.tag = "Atom" /\ left.int # 0) THEN domain_error("dyadic_modulo", 185)
    ELSE LET modulus == left.int IN
         CASE right.tag = "Atom" ->
                 IF RemOverflows(right.int, modulus) THEN Ok(Panic)
                 ELSE Ok(Atom(Rem(right.int, modulus)))
           [] right.tag = "Vector" ->
                 IF \E i \in 1..Len(right.vec) : RemOverflows(right.vec[i], modulus)
                 THEN Ok(Panic)
                 ELSE Ok(FromVec([i \in 1..Len(right.vec) |-> Rem(right.vec[i], modulus)]))
           [] OTHER -> Ok(Error)

dyadic_take(left, right) ==
    IF is_error(left) \/ is_error(right) THEN Ok(Error)
    ELSE IF left.tag = "Atom" /\ left.int < 0 THEN domain_error("dyadic_take", 207)
    ELSE IF left.tag # "Atom" THEN rank_error("dyadic_take", 208)
    ELSE LET count == left.int IN
         CASE right.tag = "Atom" -> Ok(FromVec([i \in 1..count |-> right.int]))
           [] right.tag = "Vector" ->
                 LET length == Len(right.vec) IN
                 \* index.checked_rem(0) is None, so element 0 of an empty
                 \* vector is read: an out-of-bounds panic.
                 IF length = 0 /\ count > 0 THEN Ok(Panic)
                 ELSE Ok(FromVec([i \in 1..count |-> right.vec[((i - 1) % length) + 1]]))
           [] OTHER -> Ok(Error)

\* The elements of an operand of concatenate once atoms are enlisted.
Enlisted(v) == IF v.tag = "Atom" THEN <<v.int>> ELSE v.vec

\* Mutant: the operands joined in the wrong order.
dyadic_concatenate_swapped(left, right) ==
    IF is_error(left) \/ is_error(right) THEN Ok(Error)
    ELSE Ok(FromVec(Enlisted(right) \o Enlisted(left)))

dyadic_concatenate(left, right) ==
    IF is_error(left) \/ is_error(right) THEN Ok(Error)
    ELSE Ok(FromVec(Enlisted(left) \o Enlisted(right)))

\* Mutant: an index equal to the length refused like the larger ones.
dyadic_index_at_strict(left, right) ==
    IF is_error(left) \/ is_error(right) THEN Ok(Error)
    ELSE IF left.tag = "Atom" THEN rank_error("dyadic_index_at", 247)
    ELSE LET left_vector == left.vec
             left_length == Len(left.vec)
             Get(i) == IF i < left_length THEN left_vector[i + 1] ELSE 0
         IN
         CASE right.tag = "Atom" ->
                 IF right.int < 0 \/ right.int >= left_length
                 THEN length_error("dyadic_index_at", 258)
                 ELSE Ok(Atom(Get(right.int)))
           [] right.tag = "Vector" ->
                 Ok(FromVec([k \in 1..Len(right.vec) |->
                        Get(IF right.vec[k] > 0 THEN right.vec[k] ELSE 0)]))
           [] OTHER -> Ok(Error)

dyadic_index_at(left, right) ==
    IF is_error(left) \/ is_error(right) THEN Ok(Error)
    ELSE IF left.tag = "Atom" THEN rank_error("dyadic_index_at", 247)
    ELSE LET left_vector == left.vec
             left_length == Len(left.vec)
             Get(i) == IF i < left_length THEN left_vector[i + 1] ELSE 0
         IN
         CASE right.tag = "Atom" ->
                 IF right.int < 0 \/ right.int > left_length
                 THEN length_error("dyadic_index_at", 258)
                 ELSE Ok(Atom(Get(right.int)))
           [] right.tag = "Vector" ->
                 Ok(FromVec([k \in 1..Len(right.vec) |->
                        Get(IF right.vec[k] > 0 THEN right.vec[k] ELSE 0)]))
           [] OTHER -> Ok(Error)

monadic_first(value) == dyadic_index_at(value, Atom(0))

dyadic_equal(left, right) ==
    unwrap_or_domain_error(Value_apply_dyadic_verb(left, right, "equal"),
                           "dyadic_equal", 281)

dyadic_not_equal(left, right) ==
    unwrap_or_domain_error(Value_apply_dyadic_verb(left, right, "not_equal"),
                           "dyadic_not_equal", 287)

dyadic_and(left, right) ==
    unwrap_or_domain_error(Value_apply_dyadic_verb(left, right, "and"),
                           "dyadic_and", 293)

dyadic_or(left, right) ==
    unwrap_or_domain_error(Value_apply_dyadic_verb(left, right, "or"),
                           "dyadic_or", 299)

dyadic_product(left, right) ==
    unwrap_or_domain_error(Value_apply_dyadic_verb(left, right, "wrapping_mul"),
                           "dyadic_product", 305)

\* ---------------------------------------------------------------- runtime.rs: tables

\* MONADIC_VERBS.get(verb_index).unwrap_or(monadic_not_a_verb)
MONADIC_VERBS(verb_index, value) ==
    CASE verb_index = 0 -> monadic_not_a_verb(value)
      [] verb_index = 2 -> monadic_negate(value)
      [] verb_index = 3 -> monadic_enumerate(value)
      [] verb_index = 4 -> monadic_count(value)
      [] verb_index = 5 -> monadic_enlist(value)
      [] verb_index = 6 -> monadic_first(value)
      [] verb_index = 10 -> monadic_reverse(value)
      [] verb_index \in {1, 7, 8, 9, 11} -> monadic_not_implemented(value)
      [] OTHER -> monadic_not_a_verb(value)

\* DYADIC_VERBS.get(verb_index).unwrap_or(dyadic_not_a_verb)
DYADIC_VERBS(verb_index, left, right) ==
    CASE verb_index = 0 -> dyadic_not_a_verb(left, right)
      [] verb_index = 1 -> dyadic_add(left, right)
      [] verb_index = 2 -> dyadic_subtract(left, right)
      [] verb_index = 3 -> dyadic_modulo(left, right)
      [] verb_index = 4 -> dyadic_take(left, right)
      [] verb_index = 5 -> dyadic_concatenate(left, right)
      [] verb_index = 6 -> dyadic_index_at(left, right)
      [] verb_index = 7 -> dyadic_equal(left, right)
      [] verb_index = 8 -> dyadic_not_equal(left, right)
      [] verb_index = 9 -> dyadic_and(left, right)
      [] verb_index = 10 -> dyadic_or(left, right)
      [] verb_index = 11 -> dyadic_product(left, right)
      [] OTHER -> dyadic_not_a_verb(left, right)

\* One entry of the log of verb applications: which table, which index,
\* and what came back.
Call(kind, idx, out) == [kind |-> kind, idx |-> idx, out |-> out.tag]

\* What a table entry handed back (r), with the application logged after
\* those made inside it.
Logged(kind, idx, r, inner) ==
    [v |-> r.v, d |-> r.d, c |-> inner \o <<Call(kind, idx, r.v)>>]

\* apply_monadic_verb / apply_dyadic_verb: the table's entry applied.
apply_monadic_verb(verb_index, value) ==
    Logged("monadic", verb_index, MONADIC_VERBS(verb_index, value), <<>>)

apply_dyadic_verb(verb_index, left, right) ==
    Logged("dyadic", verb_index, DYADIC_VERBS(verb_index, left, right), <<>>)

\* ---------------------------------------------------------------- runtime.rs: adverbs

\* The fold of adverb_over from element i on: acc is the running result
\* with the diagnostics and applications so far.  A panic unwinds.
\* The fold's accumulator after one more application handed back r.
OverStep(acc, r) == [v |-> r.v, d |-> acc.d \o r.d, c |-> acc.c \o r.c]

RECURSIVE OverFrom(_, _, _, _)
OverFrom(verb_index, acc, vector, i) ==
    IF i > Len(vector) \/ IsPanic(acc.v) THEN acc
    ELSE OverFrom(verb_index,
                  OverStep(acc, apply_dyadic_verb(verb_index, acc.v, Atom(vector[i]))),
                  vector, i + 1)

\* Mutant: the fold seeded with the first element instead of 0.
adverb_over_first_seed(verb_index, value) ==
    CASE value.tag = "Atom" -> [v |-> value, d |-> <<>>, c |-> <<>>]
      [] value.tag = "Vector" ->
            IF value.vec = <<>> THEN [v |-> Atom(0), d |-> <<>>, c |-> <<>>]
            ELSE OverFrom(verb_index, [v |-> Atom(value.vec[1]), d |-> <<>>, c |-> <<>>],
                          value.vec, 2)
      [] OTHER -> [v |-> Error, d |-> <<>>, c |-> <<>>]

adverb_over(verb_index, value) ==
    CASE value.tag = "Atom" -> [v |-> value, d |-> <<>>, c |-> <<>>]
      [] value.tag = "Vector" ->
            OverFrom(verb_index, [v |-> Atom(0), d |-> <<>>, c |-> <<>>], value.vec, 1)
      [] OTHER -> [v |-> Error, d |-> <<>>, c |-> <<>>]

\* The loop of adverb_scan from element i on: st.result is the running
\* state, st.output the elements pushed so far.
\* The body of the loop: the match on what the application handed back (r).
ScanStep(st, r) ==
    [result |-> IF r.v.tag = "Atom" THEN r.v ELSE Error,
     output |-> Append(st.output, IF r.v.tag = "Atom" THEN r.v.int ELSE 0),
     d |-> st.d \o r.d,
     c |-> st.c \o r.c,
     panic |-> IsPanic(r.v)]

RECURSIVE ScanFrom(_, _, _, _)
ScanFrom(verb_index, st, vector, i) ==
    IF i > Len(vector) \/ st.panic THEN st
    ELSE ScanFrom(verb_index,
                  ScanStep(st, apply_dyadic_verb(verb_index, st.result, Atom(vector[i]))),
                  vector, i + 1)

\* output.into() once the loop is over.
ScanOutput(st) ==
    [v |-> IF st.panic THEN Panic ELSE FromVec(st.output), d |-> st.d, c |-> st.c]

\* Mutant: no early return for the empty vector, a missing first element read as 0.
adverb_scan_no_empty_return(verb_index, value) ==
    CASE value.tag = "Atom" -> [v |-> value, d |-> <<>>, c |-> <<>>]
      [] value.tag = "Vector" ->
            IF value.vec = <<>> THEN [v |-> FromVec(<<0>>), d |-> <<>>, c |-> <<>>]
            ELSE ScanOutput(ScanFrom(verb_index,
                                     [result |-> Atom(value.vec[1]),
                                      output |-> <<value.vec[1]>>,
                                      d |-> <<>>, c |-> <<>>, panic |-> FALSE],
                                     value.vec, 2))
      [] OTHER -> [v |-> Error, d |-> <<>>, c |-> <<>>]

adverb_scan(verb_index, value) ==
    CASE value.tag = "Atom" -> [v |-> value, d |-> <<>>, c |-> <<>>]
      [] value.tag = "Vector" ->
            IF value.vec = <<>> THEN [v |-> FromVec(<<>>), d |-> <<>>, c |-> <<>>]
            ELSE ScanOutput(ScanFrom(verb_index,
                                     [result |-> Atom(value.vec[1]),
                                      output |-> <<value.vec[1]>>,
                                      d |-> <<>>, c |-> <<>>, panic |-> FALSE],
                                     value.vec, 2))
      [] OTHER -> [v |-> Error, d |-> <<>>, c |-> <<>>]

\* ADVERBS.get(adverb_index).unwrap_or(identity); entry 0 is the identity.
ADVERBS(adverb_index, verb_index, value) ==
    CASE adverb_index = 1 -> adverb_over(verb_index, value)
      [] adverb_index = 2 -> adverb_scan(verb_index, value)
      [] OTHER -> [v |-> value, d |-> <<>>, c |-> <<>>]

AdverbName(adverb_index) ==
    IF adverb_index = 1 THEN "over" ELSE IF adverb_index = 2 THEN "scan" ELSE "identity"

\* The adverb's result, its own application logged after the verb's.
LoggedAdverb(adverb_index, verb_index, r) ==
    Logged(AdverbName(adverb_index), verb_index, r, r.c)

apply_adverb(adverb_index, verb_index, value) ==
    LoggedAdverb(adverb_index, verb_index, ADVERBS(adverb_index, verb_index, value))

\* ---------------------------------------------------------------- token.rs

VERB_TOKENS == <<" ", "+", "-", "!", "#", ",", "@", "=", "~", "&", "|", "*">>
ADVERB_TOKENS == <<" ", "/", "\\">>

Number(n) == [type |-> "Number", num |-> n, byte |-> ""]
Global(b) == [type |-> "Global", num |-> 0, byte |-> b]
Symbol(b) == [type |-> "Symbol", num |-> 0, byte |-> b]
Colon == [type |-> "Colon", num |-> 0, byte |-> ""]

\* The bytes u8::is_ascii_lowercase accepts, in order: byte - b'a' is the
\* position less one.
Lowercase == <<"a", "b", "c", "d", "e", "f", "g", "h", "i", "j", "k", "l", "m",
               "n", "o", "p", "q", "r", "s", "t", "u", "v", "w", "x", "y", "z">>

\* The bytes u8::is_ascii_whitespace accepts: space, tab, LF, FF, CR.
Whitespace == {" ", "\t", "\n", "\f", "\r"}

Contains(s, b) == \E i \in 1..Len(s) : s[i] = b

\* .iter().position(|&byte| byte == token), counted from 0; 0 when absent.
Position(s, b) ==
    IF Contains(s, b) THEN (CHOOSE i \in 1..Len(s) : s[i] = b /\ \A j \in 1..(i - 1) : s[j] # b) - 1
    ELSE 0

is_ascii_digit(b) == Contains(DigitBytes, b)
is_ascii_lowercase(b) == Contains(Lowercase, b)
is_ascii_whitespace(b) == b \in Whitespace

\* Mutant: a Global also lets a negative number start.
can_start_negative_after_global(t) ==
    CASE t.type = "Colon" -> TRUE
      [] t.type = "Symbol" -> Contains(VERB_TOKENS, t.byte) \/ Contains(ADVERB_TOKENS, t.byte)
      [] t.type = "Global" -> TRUE
      [] OTHER -> FALSE

can_start_negative(t) ==
    CASE t.type = "Colon" -> TRUE
      [] t.type = "Symbol" -> Contains(VERB_TOKENS, t.byte) \/ Contains(ADVERB_TOKENS, t.byte)
      [] OTHER -> FALSE

verb_index(b) == Position(VERB_TOKENS, b)
adverb_index(b) == Position(ADVERB_TOKENS, b)

\* The digit loop of tokenize_line from byte index on: value accumulated
\* with checked_mul(10) and checked_add(digit); ok is FALSE on overflow.
RECURSIVE ReadDigits(_, _, _, _)
ReadDigits(bytes, index, value, saw_digit) ==
    IF index <= Len(bytes) /\ is_ascii_digit(bytes[index])
    THEN LET digit == Position(DigitBytes, bytes[index]) IN
         IF value * 10 > IntMax \/ value * 10 + digit > IntMax
         THEN [ok |-> FALSE, value |-> 0, index |-> index, saw_digit |-> TRUE]
         ELSE ReadDigits(bytes, index + 1, value * 10 + digit, TRUE)
    ELSE [ok |-> TRUE, value |-> value, index |-> index, saw_digit |-> saw_digit]

\* The while loop of tokenize_line from byte index on (1-based here), with
\* the tokens pushed so far.
\* tokens.last().map_or(true, |t| t.can_start_negative())
LastCanStartNegative(toks) ==
    IF toks = <<>> THEN TRUE ELSE can_start_negative(toks[Len(toks)])

\* One turn of the while loop at byte index (1-based here): the tokens
\* after it and the index it leaves, or a failure.
TokenizeStep(bytes, index, toks, byte, digits) ==
    IF is_ascii_whitespace(byte) THEN [ok |-> TRUE, index |-> index + 1, tokens |-> toks]
    ELSE IF byte = ":"
    THEN [ok |-> TRUE, index |-> index + 1, tokens |-> Append(toks, Colon)]
    ELSE IF (byte = "-" /\ LastCanStartNegative(toks) /\ index + 1 <= Len(bytes)
               /\ is_ascii_digit(bytes[index + 1]))
            \/ is_ascii_digit(byte)
    THEN IF ~digits.ok \/ ~digits.saw_digit
         THEN [ok |-> FALSE, index |-> index, tokens |-> <<>>]
         ELSE [ok |-> TRUE, index |-> digits.index,
               tokens |-> Append(toks, Number(digits.value * (IF byte = "-" THEN -1 ELSE 1)))]
    ELSE IF is_ascii_lowercase(byte)
    THEN [ok |-> TRUE, index |-> index + 1, tokens |-> Append(toks, Global(byte))]
    ELSE [ok |-> TRUE, index |-> index + 1, tokens |-> Append(toks, Symbol(byte))]

RECURSIVE TokenizeLoop(_, _)
TokenizeLoop(bytes, st) ==
    IF ~st.ok \/ st.index > Len(bytes) THEN [ok |-> st.ok, tokens |-> st.tokens]
    ELSE TokenizeLoop(bytes,
            TokenizeStep(bytes, st.index, st.tokens, bytes[st.index],
                         ReadDigits(bytes,
                                    IF bytes[st.index] = "-" THEN st.index + 1 ELSE st.index,
                                    0, FALSE)))

TokenizeFrom(bytes, index, toks) ==
    TokenizeLoop(bytes, [ok |-> TRUE, index |-> index, tokens |-> toks])

tokenize_line(bytes) == TokenizeFrom(bytes, 1, <<>>)

\* ---------------------------------------------------------------- runtime.rs: Runtime

\* globals: [Value; 26]
NumGlobals == 26
\* std::mem::size_of::<i64>()
SizeOfI64 == 8

Slots == 0..(NumGlobals - 1)

\* Runtime::new
Runtime_new == [i \in Slots |-> Atom(0)]

\* (name - b'a') as usize
SlotOf(name) == Position(Lowercase, name)

\* Runtime::noun_from_token: a Global clones the slot's value, an Rc clone
\* for a vector, so the storage is shared.
noun_from_token(g, token) ==
    CASE token.type = "Number" -> Atom(token.num)
      [] token.type = "Global" -> g[SlotOf(token.byte)]
      [] OTHER -> Error

\* Mutant: the slot index off by one.
assign_global_next_slot(g, index, value) == [g EXCEPT ![(index + 1) % NumGlobals] = value]

\* Runtime::assign_global: the slot gets a clone of value; value is returned.
assign_global(g, index, value) == [g EXCEPT ![index] = value]

\* Mutant: every slot's vector counted, shared storage or not.
RECURSIVE WorkspaceFrom_every_slot(_, _, _, _)
WorkspaceFrom_every_slot(g, index, seen, total) ==
    IF index >= NumGlobals THEN total
    ELSE IF g[index].tag = "Vector"
    THEN WorkspaceFrom_every_slot(g, index + 1, seen, total + Len(g[index].vec))
    ELSE WorkspaceFrom_every_slot(g, index + 1, seen, total)

\* The loop of workspace_bytes from slot index on.
RECURSIVE WorkspaceFrom(_, _, _, _)
WorkspaceFrom(g, index, seen, total) ==
    IF index >= NumGlobals THEN total
    ELSE IF g[index].tag = "Vector" /\ g[index].ptr \notin seen
    THEN WorkspaceFrom(g, index + 1, seen \cup {g[index].ptr}, total + Len(g[index].vec))
    ELSE WorkspaceFrom(g, index + 1, seen, total)

workspace_bytes(g) == WorkspaceFrom(g, 0, {}, 0) * SizeOfI64

\* Rc::strong_count of a slot's vector between lines: the slots sharing it.
strong_count(g, index) ==
    Cardinality({j \in Slots : g[j].tag = "Vector" /\ g[j].ptr = g[index].ptr})

\* impl Display for Runtime, from slot index on: "<name>[<length>] <count>\n"
\* for every slot that holds a vector.
RECURSIVE DisplayRuntimeFrom(_, _)
DisplayRuntimeFrom(g, index) ==
    IF index >= NumGlobals THEN <<>>
    ELSE (IF g[index].tag = "Vector"
          THEN <<Lowercase[index + 1], "[">> \o Decimal(Len(g[index].vec)) \o <<"]", " ">>
               \o Decimal(strong_count(g, index)) \o <<"\n">>
          ELSE <<>>)
         \o DisplayRuntimeFrom(g, index + 1)

\* ---------------------------------------------------------------- repl.rs: evaluate_expression

\* A value as the evaluator receives it from a verb: fresh storage gets the
\* next identity.
Named(v, h) == IF v.tag = "Vector" /\ v.ptr = 0 THEN Vector(v.vec, h + 1) ELSE v
HeapAfter(v, h) == IF v.tag = "Vector" /\ v.ptr = 0 THEN h + 1 ELSE h

\* An evaluation's outcome: the value, the runtime after it, what it
\* printed and which verbs it applied.
Outcome(v, g, h, d, c) == [v |-> v, globals |-> g, heap |-> h, d |-> d, c |-> c]

\* The outcome of applying a verb (r) after the operand evaluation (e).
Applied(e, r) ==
    Outcome(Named(r.v, e.heap), e.globals, HeapAfter(r.v, e.heap), e.d \o r.d, e.c \o r.c)

\* `if operand.is_error() { return operand; }`, a panic unwinding the same way.
Returns(e) == is_error(e.v) \/ IsPanic(e.v)

\* The arms of evaluate_expression once `rest` has been evaluated to e.
ThenAdverb(e, adverb_idx, verb_idx) ==
    IF Returns(e) THEN e ELSE Applied(e, apply_adverb(adverb_idx, verb_idx, e.v))

ThenMonadic(e, verb_idx) ==
    IF Returns(e) THEN e ELSE Applied(e, apply_monadic_verb(verb_idx, e.v))

\* Mutant: the value stored without looking at it.
ThenAssign_unchecked(e, index) ==
    Outcome(e.v, assign_global(e.globals, index, e.v), e.heap, e.d, e.c)

ThenAssign(e, index) ==
    IF Returns(e) THEN e
    ELSE Outcome(e.v, assign_global(e.globals, index, e.v), e.heap, e.d, e.c)

\* Mutant: the operands handed to the verb in the wrong order.
ThenDyadic_swapped(e, left_value, dyadic_idx) ==
    IF Returns(e) THEN e
    ELSE IF dyadic_idx = 0
    THEN Outcome(Error, e.globals, e.heap,
                 e.d \o domain_error("evaluate_expression", 54).d, e.c)
    ELSE Applied(e, apply_dyadic_verb(dyadic_idx, e.v, left_value))

ThenDyadic(e, left_value, dyadic_idx) ==
    IF Returns(e) THEN e
    ELSE IF dyadic_idx = 0
    THEN Outcome(Error, e.globals, e.heap,
                 e.d \o domain_error("evaluate_expression", 54).d, e.c)
    ELSE Applied(e, apply_dyadic_verb(dyadic_idx, left_value, e.v))

\* A failure of the evaluator itself: the parse error printed, nothing else done.
ParseFailure(g, h, function_name, at) ==
    Outcome(Error, g, h, parse_error(function_name, at).d, <<>>)

\* `[token] => match runtime.noun_from_token(token)`
Noun(g, h, value) ==
    IF is_error(value) THEN ParseFailure(g, h, "evaluate_error", 11)
    ELSE Outcome(value, g, h, <<>>, <<>>)

RECURSIVE evaluate_expression(_, _, _)

\* Mutant: the left token converted once rest has been evaluated (to e).
LeftAfterRest(e, left_token, dyadic_idx) ==
    IF is_error(noun_from_token(e.globals, left_token))
    THEN Outcome(Error, e.globals, e.heap,
                 e.d \o parse_error("evaluate_expression", 44).d, e.c)
    ELSE ThenDyadic(e, noun_from_token(e.globals, left_token), dyadic_idx)

LeftOpRest_rest_first(g, h, toks) ==
    LeftAfterRest(evaluate_expression(g, h, SubSeq(toks, 3, Len(toks))),
                  toks[1], verb_index(toks[2].byte))

\* The arm `[left_token, Token::Symbol(op), rest @ ..]`: the left token is
\* converted before rest is evaluated.
LeftOpRest(g, h, toks) ==
    IF is_error(noun_from_token(g, toks[1]))
    THEN ParseFailure(g, h, "evaluate_expression", 44)
    ELSE ThenDyadic(evaluate_expression(g, h, SubSeq(toks, 3, Len(toks))),
                    noun_from_token(g, toks[1]), verb_index(toks[2].byte))

evaluate_expression(g, h, toks) ==
    IF Len(toks) = 0 THEN ParseFailure(g, h, "evaluate_expression", 9)
    ELSE IF Len(toks) = 1 THEN Noun(g, h, noun_from_token(g, toks[1]))
    ELSE IF toks[1].type = "Symbol" /\ toks[2].type = "Symbol"
            /\ verb_index(toks[1].byte) # 0 /\ adverb_index(toks[2].byte) # 0
    THEN ThenAdverb(evaluate_expression(g, h, SubSeq(toks, 3, Len(toks))),
                    adverb_index(toks[2].byte), verb_index(toks[1].byte))
    ELSE IF toks[1].type = "Symbol" /\ verb_index(toks[1].byte) # 0
    THEN ThenMonadic(evaluate_expression(g, h, SubSeq(toks, 2, Len(toks))),
                     verb_index(toks[1].byte))
    ELSE IF toks[1].type = "Global" /\ toks[2].type = "Colon"
    THEN ThenAssign(evaluate_expression(g, h, SubSeq(toks, 3, Len(toks))),
                    SlotOf(toks[1].byte))
    ELSE IF toks[2].type = "Symbol"
    THEN LeftOpRest(g, h, toks)
    ELSE ParseFailure(g, h, "evaluate_expression", 59)

\* ---------------------------------------------------------------- repl.rs: process_line

\* str::trim_end over the bytes the model's lines are made of.
RECURSIVE trim_end(_)
trim_end(bytes) ==
    IF bytes # <<>> /\ is_ascii_whitespace(bytes[Len(bytes)])
    THEN trim_end(SubSeq(bytes, 1, Len(bytes) - 1))
    ELSE bytes

\* What handling one line leaves behind.
Handled(g, h, toks, value, d, c, out, continue, panicked) ==
    [globals |-> g, heap |-> h, tokens |-> toks, result |-> value, diags |-> d,
     calls |-> c, stdout |-> out, running |-> continue, aborted |-> panicked]

\* A line that is handled without evaluation and prints out.
Unevaluated(g, h, d, out, continue) ==
    Handled(g, h, <<>>, NoValue, d, <<>>, out, continue, FALSE)

\* process_line from `let result = evaluate_expression(..)` on, e being
\* what the evaluation came to.
Evaluated(toks, e) ==
    IF IsPanic(e.v)
    THEN Handled(e.globals, e.heap, toks, Panic, e.d, e.c, <<>>, FALSE, TRUE)
    ELSE Handled(e.globals, e.heap, toks, e.v, e.d, e.c,
                 IF Len(toks) > 1 /\ toks[2].type = "Colon"
                 THEN <<>>
                 ELSE Display(e.v) \o <<"\n">>,
                 TRUE, FALSE)

\* process_line from the match on tokenize_line's result (t) on.
Tokenized(g, h, t) ==
    IF ~t.ok THEN Unevaluated(g, h, parse_error("tokenize_line", 96).d, <<>>, TRUE)
    ELSE IF t.tokens = <<>> THEN Unevaluated(g, h, <<>>, <<>>, TRUE)
    ELSE Evaluated(t.tokens, evaluate_expression(g, h, t.tokens))

\* process_line once the line is trimmed.
Trimmed(g, h, trimmed) ==
    IF trimmed = <<>> THEN Unevaluated(g, h, <<>>, <<>>, TRUE)
    ELSE IF Len(trimmed) = 2 /\ trimmed[1] = "\\"
    THEN CASE trimmed[2] = "\\" -> Unevaluated(g, h, <<>>, <<>>, FALSE)
           [] trimmed[2] = "w" ->
                 Unevaluated(g, h, <<>>, Decimal(workspace_bytes(g)) \o <<"\n">>, TRUE)
           [] trimmed[2] = "v" -> Unevaluated(g, h, <<>>, DisplayRuntimeFrom(g, 0), TRUE)
           [] OTHER -> Unevaluated(g, h, <<>>, <<>>, TRUE)
    ELSE IF trimmed[1] = "/" THEN Unevaluated(g, h, <<>>, <<>>, TRUE)
    ELSE Tokenized(g, h, tokenize_line(trimmed))

\* process_line(runtime, line): the runtime is (g, h).
process_line(g, h, bytes) == Trimmed(g, h, trim_end(bytes))

\* ---------------------------------------------------------------- the line loop

\* main: Runtime::new(), then run_repl / run_batch before the first line.
Init ==
    /\ globals = Runtime_new
    /\ heap = 0
    /\ line = <<>>
    /\ tokens = <<>>
    /\ result = NoValue
    /\ diags = <<>>
    /\ calls = <<>>
    /\ stdout = <<>>
    /\ nlines = 0
    /\ running = TRUE
    /\ aborted = FALSE

\* The state a handled line (r) leaves.
Becomes(r) ==
    /\ globals' = r.globals
    /\ heap' = r.heap
    /\ tokens' = r.tokens
    /\ result' = r.result
    /\ diags' = r.diags
    /\ calls' = r.calls
    /\ stdout' = r.stdout
    /\ running' = r.running
    /\ aborted' = r.aborted

\* The loop of run_repl / run_batch takes another turn: process_line has
\* not returned false, no panic has ended the process, and the session has
\* lines left.
Looping == running /\ ~aborted /\ nlines < MaxLines

\* One turn of the loop: the line is read and handed to process_line.
ProcessLine(bytes) ==
    /\ Becomes(process_line(globals, heap, bytes))
    /\ line' = bytes
    /\ nlines' = nlines + 1

\* The lines of the sessions explored from a fresh runtime.
LnAssignRun == <<"a", ":", "1", " ", "2", " ", "3">>
LnAssignCat == <<"a", ":", "1", ",", "2", ",", "3">>
LnA == <<"a">>
LnTake2Run == <<"2", "#", "1", " ", "2", " ", "3">>
LnTake2Cat == <<"2", "#", "1", ",", "2", ",", "3">>
LnTake5Run == <<"5", "#", "1", " ", "2", " ", "3">>
LnTake5Cat == <<"5", "#", "1", ",", "2", ",", "3">>
LnSumRun == <<"+", "/", "1", " ", "2", " ", "3", " ", "4">>
LnSumCat == <<"+", "/", "1", ",", "2", ",", "3", ",", "4">>
LnTakeEmpty == <<"3", "#", "!", "0">>
\* -1!-<IntMax>-1: the right operand is the minimum integer.
LnModMin == <<"-", "1", "!", "-">> \o Decimal(IntMax) \o <<"-", "1">>
LnChain == <<"a", ":", "b", ":", "5">>
LnChainIn == <<"1", "+", "a", ":", "b", ":", "5">>
LnAlias == <<"b", ":", "a">>
LnAssignCatB == <<"b", ":", "1", ",", "2", ",", "3">>
LnAssignAtom == <<"a", ":", "7">>
LnAssignEmpty == <<"a", ":", "!", "0">>
LnScanFirst == <<"@", "\\", "1", ",", "2">>
LnWorkspace == <<"\\", "w">>
LnVariables == <<"\\", "v">>
LnQuit == <<"\\", "\\">>
LnComment == <<"/", "a", ":", "1">>
LnBlank == <<" ">>
\* The right-hand side binds b and then fails: first of an atom.
LnAssignError == <<"a", ":", "@", "b", ":", "7">>
\* The right-hand side panics.
LnAssignPanic == <<"b", ":", "3", "#", "!", "0">>

Script ==
    { LnAssignRun, LnAssignCat, LnA, LnTake2Run, LnTake2Cat, LnTake5Run, LnTake5Cat,
      LnSumRun, LnSumCat, LnTakeEmpty, LnModMin, LnChain, LnChainIn, LnAlias,
      LnAssignCatB, LnAssignAtom, LnAssignEmpty, LnScanFirst, LnWorkspace, LnVariables,
      LnQuit, LnComment, LnBlank, LnAssignError, LnAssignPanic }

Next == Looping /\ \E bytes \in Script : ProcessLine(bytes)

Spec == Init /\ [][Next]_vars

\* ---------------------------------------------------------------- expressions on bound globals

\* Longest vector a setup line binds.
MaxVecLen == 3

\* Elements of the vectors bound to a.
Elems == {-1, 0, 2}

\* All sequences over S of length at most n.
SeqsUpTo(S, n) == UNION {[1..k -> S] : k \in 0..n}

\* The text of a number literal (n above the minimum, which has none).
Lit(n) == FormatInt(n)

RECURSIVE Joined(_)
Joined(s) == IF Len(s) = 1 THEN Lit(s[1]) ELSE Lit(s[1]) \o <<",">> \o Joined(Tail(s))

\* An expression whose value is the vector s: !0, ,x or x,y,..
VecText(s) ==
    IF s = <<>> THEN <<"!", "0">>
    ELSE IF Len(s) = 1 THEN <<",">> \o Lit(s[1])
    ELSE Joined(s)

\* -<IntMax>-1: the minimum integer.
MinText == <<"-">> \o Decimal(IntMax) \o <<"-", "1">>

\* The lines that bind a: atoms, every vector over Elems up to MaxVecLen,
\* and vectors that hold the minimum integer.
SetupA ==
    {<<"a", ":">> \o Lit(n) : n \in Elems}
    \cup {<<"a", ":">> \o VecText(s) : s \in SeqsUpTo(Elems, MaxVecLen)}
    \cup {<<"a", ":">> \o MinText, <<"a", ":", "-", "1", ",">> \o MinText}

\* The lines that bind b: atoms and vectors used as indices and operands.
SetupB ==
    {<<"b", ":">> \o Lit(n) : n \in {-1, 1, IntMax}}
    \cup {<<"b", ":">> \o VecText(s) : s \in {<<>>, <<1>>, <<-1, 1>>, <<-2, 0, 3>>}}

\* The state as handling the line bytes left it (r), n lines in all.
Left(r, bytes, n) ==
    /\ globals = r.globals
    /\ heap = r.heap
    /\ tokens = r.tokens
    /\ result = r.result
    /\ diags = r.diags
    /\ calls = r.calls
    /\ stdout = r.stdout
    /\ running = r.running
    /\ aborted = r.aborted
    /\ line = bytes
    /\ nlines = n

\* process_line on the runtime an earlier line left.
process_next(r, bytes) == process_line(r.globals, r.heap, bytes)

\* A session that has bound a and b and has one line to go.
InitExpr ==
    \E la \in SetupA, lb \in SetupB :
        Left(process_next(process_line(Runtime_new, 0, la), lb), lb, MaxLines - 1)

VerbBytes == {VERB_TOKENS[i] : i \in 2..Len(VERB_TOKENS)}

\* The noun texts of the expressions: a literal, a, b.
NounTexts == {<<"2">>, <<"a">>, <<"b">>}

\* x f y g z
ChainLines ==
    {x \o <<f>> \o y \o <<g>> \o z :
        x \in NounTexts, y \in NounTexts, z \in NounTexts, f \in VerbBytes, g \in VerbBytes}

\* f/a and f\a, f/b and f\b
AdverbLines ==
    {<<f, adv>> \o x : f \in VerbBytes, adv \in {"/", "\\"}, x \in {<<"a">>, <<"b">>}}

\* a@i for literal i, a@b, b@a, @a, @b, 2@0
IndexLines ==
    {<<"a", "@">> \o Lit(i) : i \in (-2)..(MaxVecLen + 2)}
    \cup {<<"a", "@", "b">>, <<"b", "@", "a">>, <<"@", "a">>, <<"@", "b">>,
          <<"2", "@", "0">>}

Adverb == Looping /\ \E bytes \in AdverbLines : ProcessLine(bytes)
Index == Looping /\ \E bytes \in IndexLines : ProcessLine(bytes)

NextExpr == Adverb \/ Index

SpecExpr == InitExpr /\ [][NextExpr]_vars

\* The lines that bind a and b for the three-term expressions.
ChainA ==
    {<<"a", ":">> \o Lit(n) : n \in {-1, 0, 2}}
    \cup {<<"a", ":">> \o VecText(s) : s \in {<<>>, <<-1, 0>>, <<2, 0, -1>>}}
    \cup {<<"a", ":">> \o MinText, <<"a", ":", "-", "1", ",">> \o MinText}

ChainB ==
    {<<"b", ":">> \o Lit(n) : n \in {-1, 1}}
    \cup {<<"b", ":">> \o VecText(s) : s \in {<<>>, <<1, 3>>}}

InitChain ==
    \E la \in ChainA, lb \in ChainB :
        Left(process_next(process_line(Runtime_new, 0, la), lb), lb, MaxLines - 1)

Chain == Looping /\ \E bytes \in ChainLines : ProcessLine(bytes)

SpecChain == InitChain /\ [][Chain]_vars

\* ---------------------------------------------------------------- lines ending in -digits

MaxPrefixLen == 2

\* The bytes before the sign: the verb and adverb characters, a digit, a
\* global, the colon, a blank and a byte that is none of these.
PrefixBytes ==
    VerbBytes \cup {"/", "\\"} \cup {"7", "a", ":", " ", "("}

\* The digits after the sign: one digit, the largest i64, and one more
\* than the largest i64.
DigitRuns == {<<"5">>, Decimal(IntMax), Decimal(IntMax + 1)}

TokLines ==
    {p \o <<"-">> \o d : p \in SeqsUpTo(PrefixBytes, MaxPrefixLen), d \in DigitRuns}

\* A session with nothing bound and one line to go.
InitTok == Left(process_line(Runtime_new, 0, <<>>), <<>>, MaxLines - 1)

Tok == Looping /\ \E bytes \in TokLines : ProcessLine(bytes)

SpecTok == InitTok /\ [][Tok]_vars

\* ---------------------------------------------------------------- left op a:rest

\* The left token: a global that the line rebinds, another global, a
\* number, and tokens that are no noun.
LeftTexts == {"a", "b", "2", ":", "(", "\\"}

\* What the line binds a to: texts that evaluate without Error.
BoundTexts == {<<"5">>, <<"a">>, <<"b">>, <<"a", ",", "2">>, <<"!", "3">>}

LeftLines ==
    {<<l, f, "a", ":">> \o r : l \in LeftTexts, f \in VerbBytes, r \in BoundTexts}

LeftOp == Looping /\ \E bytes \in LeftLines : ProcessLine(bytes)

SpecLeft == InitChain /\ [][LeftOp]_vars

\* ---------------------------------------------------------------- claims: helpers

IsVec(v, s) == v.tag = "Vector" /\ v.vec = s
ParseDiag(at) == <<[fn |-> "evaluate_expression", line |-> at, msg |-> "parse"]>>

\* ---------------------------------------------------------------- C1

\* C1 as stated: a run of adjacent number literals is a vector literal, so
\* `a:1 2 3` binds a to [1,2,3], `2#1 2 3` is [1,2], `5#1 2 3` is
\* [1,2,3,1,2] and `+/1 2 3 4` is the atom 10.
C1_LiteralRunIsVector ==
    /\ line = LnAssignRun => IsVec(result, <<1, 2, 3>>) /\ IsVec(globals[0], <<1, 2, 3>>)
    /\ line = LnTake2Run => IsVec(result, <<1, 2>>)
    /\ line = LnTake5Run => IsVec(result, <<1, 2, 3, 1, 2>>)
    /\ line = LnSumRun => result = Atom(10)

\* C1 amended: a run of adjacent number literals is a parse error that
\* binds nothing; with the literals joined by the concatenate verb,
\* `a:1,2,3` binds a to [1,2,3] and a following `a` evaluates to it,
\* `2#1,2,3` is [1,2], `5#1,2,3` is [1,2,3,1,2] and `+/1,2,3,4` is 10.
C1_LiteralRunIsParseError ==
    /\ [](line \in {LnAssignRun, LnTake2Run, LnTake5Run, LnSumRun}
            => result = Error /\ diags = ParseDiag(59) /\ calls = <<>>)
    /\ [][line' = LnAssignRun /\ nlines' = nlines + 1 => globals' = globals]_vars
    /\ [](line = LnAssignCat => IsVec(result, <<1, 2, 3>>) /\ globals[0] = result
                                /\ stdout = <<>>)
    /\ [][line = LnAssignCat /\ line' = LnA
            => result' = globals[0] /\ IsVec(result', <<1, 2, 3>>)
               /\ stdout' = <<"1", " ", "2", " ", "3", " ", "\n">>]_vars
    /\ [](line = LnTake2Cat => IsVec(result, <<1, 2>>) /\ diags = <<>>)
    /\ [](line = LnTake5Cat => IsVec(result, <<1, 2, 3, 1, 2>>) /\ diags = <<>>)
    /\ [](line = LnSumCat => result = Atom(10) /\ diags = <<>>
                             /\ stdout = <<"1", "0", "\n">>)

C1_Witness ==
    /\ line = LnA /\ IsVec(result, <<1, 2, 3>>) /\ nlines = 3
    /\ stdout = <<"1", " ", "2", " ", "3", " ", "\n">>

\* ---------------------------------------------------------------- C2

\* C2 as stated: evaluation never aborts the process; every line's
\* evaluation returns an Atom, a Vector or Error and the loop goes on.
C2_NeverAborts ==
    /\ ~aborted
    /\ tokens # <<>> => result.tag \in {"Atom", "Vector", "Error"}

\* ---------------------------------------------------------------- C3

\* C3 as stated: when a verb application made while evaluating the line
\* yields Error, or a diagnostic is printed, the value of the line is Error.
C3_NoErrorFixedUp ==
    ((\E i \in 1..Len(calls) : calls[i].out = "Error") \/ diags # <<>>)
        => result.tag \in {"Error", "None"}

\* ---------------------------------------------------------------- C4

\* The slots a step rebinds to another value.
Rebound == {i \in Slots : globals'[i] # globals[i]}

\* The `name :` pairs of a token sequence.
AssignPairs(toks) ==
    {i \in 1..(Len(toks) - 1) : toks[i].type = "Global" /\ toks[i + 1].type = "Colon"}

\* C4 as stated: one line rebinds at most one global slot.
C4_AtMostOneSlot == [][Cardinality(Rebound) <= 1]_vars

\* C4 amended: assignment has the one form `name : expression`, but the
\* expression may itself hold an assignment: a line rebinds at most as
\* many slots as it has `name :` pairs, each of them a slot named by a
\* pair, and `a:b:5` and `1+a:b:5` bind both a and b to 5.
C4_OneSlotPerPair ==
    /\ [][/\ Cardinality(Rebound) <= Cardinality(AssignPairs(tokens'))
          /\ \A i \in Rebound :
                \E k \in AssignPairs(tokens') : SlotOf(tokens'[k].byte) = i]_vars
    /\ [](line \in {LnChain, LnChainIn}
            => globals[0] = Atom(5) /\ globals[1] = Atom(5))
    /\ [](line = LnChain => result = Atom(5))
    /\ [](line = LnChainIn => result = Atom(6))

C4_Witness ==
    /\ line = LnChainIn /\ result = Atom(6)
    /\ globals[0] = Atom(5) /\ globals[1] = Atom(5)

\* ---------------------------------------------------------------- C5

IsNoun(t) == t.type \in {"Number", "Global"}
IsVerb(t) == t.type = "Symbol" /\ t.byte \in VerbBytes

\* Equal values, whatever storage a vector has.
Same(v, w) == v.tag = w.tag /\ v.int = w.int /\ v.vec = w.vec

\* The line is x f y g z.
IsChain ==
    /\ Len(tokens) = 5
    /\ IsNoun(tokens[1]) /\ IsVerb(tokens[2]) /\ IsNoun(tokens[3])
    /\ IsVerb(tokens[4]) /\ IsNoun(tokens[5])

\* What the line came to when f was applied to x and the value inner
\* (the tail's), outer being what f handed back.
OuterApplied(gi, inner, fi, outer) ==
    /\ Same(result, outer.v)
    /\ diags = inner.d \o outer.d
    /\ calls = <<Call("dyadic", gi, inner.v), Call("dyadic", fi, outer.v)>>
    /\ aborted = IsPanic(outer.v)

\* What the line came to, inner being what g handed back for (y, z).
TailFirst(x, fi, gi, inner) ==
    IF IsPanic(inner.v) THEN aborted /\ result = Panic
    ELSE IF is_error(inner.v)
    THEN result = Error /\ diags = inner.d /\ calls = <<Call("dyadic", gi, Error)>>
    ELSE OuterApplied(gi, inner, fi, DYADIC_VERBS(fi, x, inner.v))

\* C5: x f y g z evaluates to f(x, g(y, z)) for nouns x, y, z and dyadic
\* verbs f, g: g is applied to (y, z) first and alone, then f to x and its
\* result; when g(y, z) is Error the line is Error and f is not applied
\* (an application that panics ends the line there, as it ends f(x, g(y, z))).
C5_ChainEvaluatesTailFirst ==
    IsChain =>
        TailFirst(noun_from_token(globals, tokens[1]),
                  verb_index(tokens[2].byte), verb_index(tokens[4].byte),
                  DYADIC_VERBS(verb_index(tokens[4].byte),
                               noun_from_token(globals, tokens[3]),
                               noun_from_token(globals, tokens[5])))

\* 2-a-b with a = 2, b = 1 is 2-(2-1) = 1, where (2-2)-1 is -1.
C5_Witness ==
    /\ line = <<"2", "-", "a", "-", "b">>
    /\ globals[0] = Atom(2) /\ globals[1] = Atom(1)
    /\ result = Atom(1)
    /\ Len(calls) = 2

\* ---------------------------------------------------------------- C6

RankDiag == <<[fn |-> "dyadic_index_at", line |-> 247, msg |-> "rank"]>>
LengthDiag == <<[fn |-> "dyadic_index_at", line |-> 258, msg |-> "length"]>>

\* Element i (from 0) of s, 0 past its end.
ElementOr0(s, i) == IF i < Len(s) THEN s[i + 1] ELSE 0
AtLeast0(i) == IF i < 0 THEN 0 ELSE i

\* The result of index-at for left operand l and right operand r.
IndexedAs(l, r) ==
    IF l.tag = "Atom" THEN result = Error /\ diags = RankDiag
    ELSE IF r.tag = "Atom"
    THEN IF 0 <= r.int /\ r.int < Len(l.vec)
         THEN result = Atom(l.vec[r.int + 1]) /\ diags = <<>>
         ELSE IF r.int = Len(l.vec) THEN result = Atom(0) /\ diags = <<>>
         ELSE result = Error /\ diags = LengthDiag
    ELSE /\ result.tag = "Vector"
         /\ Len(result.vec) = Len(r.vec)
         /\ \A k \in 1..Len(r.vec) : result.vec[k] = ElementOr0(l.vec, AtLeast0(r.vec[k]))
         /\ diags = <<>>

\* The result of first for operand v.
FirstAs(v) ==
    IF v.tag = "Atom" THEN result = Error /\ diags = RankDiag
    ELSE result = Atom(IF v.vec = <<>> THEN 0 ELSE v.vec[1]) /\ diags = <<>>

\* C6: v@i is v[i] for 0 <= i < L, the atom 0 without diagnostic for
\* i = L, Error with a length diagnostic for every other i; an atom left
\* operand is a rank error; @v is 0 on the empty vector and v[0]
\* otherwise; with a vector of indices nothing fails, each index is
\* raised to at least 0 and an index >= L gives 0.
C6_IndexAt ==
    /\ (Len(tokens) = 3 /\ IsNoun(tokens[1]) /\ tokens[2] = Symbol("@") /\ IsNoun(tokens[3]))
        => IndexedAs(noun_from_token(globals, tokens[1]),
                     noun_from_token(globals, tokens[3]))
    /\ (Len(tokens) = 2 /\ tokens[1] = Symbol("@") /\ IsNoun(tokens[2]))
        => FirstAs(noun_from_token(globals, tokens[2]))

\* a@2 with a of length 2: the atom 0 and no diagnostic.
C6_Witness ==
    /\ tokens = <<Global("a"), Symbol("@"), Number(2)>>
    /\ globals[0].tag = "Vector" /\ Len(globals[0].vec) = 2
    /\ globals[0].vec[1] # 0
    /\ result = Atom(0) /\ diags = <<>>

\* ---------------------------------------------------------------- C7

IsAdverbLine(adv) ==
    /\ Len(tokens) = 3
    /\ IsVerb(tokens[1]) /\ tokens[2] = Symbol(adv) /\ IsNoun(tokens[3])

\* f(...f(f(0, v0), v1)..., v(k-1)): the accumulation over the first k elements.
RECURSIVE Accumulated(_, _, _)
Accumulated(fi, vec, k) ==
    IF k = 0 THEN Atom(0)
    ELSE DYADIC_VERBS(fi, Accumulated(fi, vec, k - 1), Atom(vec[k])).v

\* The applications of f the fold made: one for each element, and after
\* one that yields Error every one yields Error.
FoldCalls(fi, n) ==
    /\ Len(calls) = n + 1
    /\ calls[n + 1].kind = "over"
    /\ \A i \in 1..n : calls[i].kind = "dyadic" /\ calls[i].idx = fi
    /\ \A i, j \in 1..n : i < j /\ calls[i].out = "Error" => calls[j].out = "Error"

FoldedAs(fi, v) ==
    IF v.tag = "Atom" THEN result = v /\ Len(calls) = 1 /\ calls[1].kind = "over" /\ diags = <<>>
    ELSE Same(result, Accumulated(fi, v.vec, Len(v.vec))) /\ FoldCalls(fi, Len(v.vec))

\* C7: f/v is the left-to-right accumulation f(...f(f(0, v0), v1)..., vn-1)
\* seeded with the atom 0, Error staying Error once an application yields
\* it; f/ applied to an atom returns the atom and applies no verb.
C7_FoldFromZero ==
    IsAdverbLine("/") =>
        FoldedAs(verb_index(tokens[1].byte), noun_from_token(globals, tokens[3]))

\* -/a with a = 2 0 -1 is ((0-2)-0)-(-1) = -1.
C7_Witness ==
    /\ tokens = <<Symbol("-"), Symbol("/"), Global("a")>>
    /\ IsVec(globals[0], <<2, 0, -1>>)
    /\ result = Atom(-1)
    /\ Len(calls) = 4

\* ---------------------------------------------------------------- C8

OperandIsEmpty == IsVec(noun_from_token(globals, tokens[3]), <<>>)

\* C8 as stated: fold and scan over an empty vector both return a result
\* of length zero, without Error or diagnostic, for every verb.
C8_EmptyGivesEmpty ==
    (IsAdverbLine("/") \/ IsAdverbLine("\\")) /\ OperandIsEmpty
        => IsVec(result, <<>>) /\ diags = <<>>

\* C8 amended: over an empty vector, for every verb, fold returns its
\* seed, the atom 0, and scan returns an empty vector; neither applies the
\* verb, returns Error or prints a diagnostic.
C8_EmptyGivesSeedOrEmpty ==
    /\ IsAdverbLine("/") /\ OperandIsEmpty
        => result = Atom(0) /\ diags = <<>> /\ Len(calls) = 1
    /\ IsAdverbLine("\\") /\ OperandIsEmpty
        => IsVec(result, <<>>) /\ diags = <<>> /\ Len(calls) = 1

C8_Witness ==
    /\ tokens = <<Symbol("#"), Symbol("/"), Global("a")>>
    /\ IsVec(globals[0], <<>>)
    /\ result = Atom(0)
    /\ stdout = <<"0", "\n">>

\* ---------------------------------------------------------------- C9

\* The 11 verb and 2 adverb characters.
SignChars == {"+", "-", "!", "#", ",", "@", "=", "~", "&", "|", "*", "/", "\\"}

\* Where the last - of the line is.
LastDash(bytes) == CHOOSE i \in 1..Len(bytes) :
                       bytes[i] = "-" /\ \A j \in (i + 1)..Len(bytes) : bytes[j] # "-"

\* The number a run of digits writes.
RECURSIVE Written(_, _)
Written(digits, k) ==
    IF k = 0 THEN 0
    ELSE Written(digits, k - 1) * 10
         + (CHOOSE n \in 0..9 : DigitBytes[n + 1] = digits[k])

\* The line is given to the tokenizer: it is no comment and no command.
IsTokenized(bytes) ==
    /\ bytes # <<>>
    /\ bytes[1] # "/"
    /\ ~(Len(bytes) = 2 /\ bytes[1] = "\\")

\* The sign is at the start of the line or after a Colon or a Symbol of a
\* verb or adverb character (before holds the tokens emitted before it).
SignPlace(before) ==
    \/ before = <<>>
    \/ before[Len(before)].type = "Colon"
    \/ before[Len(before)].type = "Symbol" /\ before[Len(before)].byte \in SignChars

\* The tokens of a line that ends in - and digits writing n, before
\* being what the bytes before the - tokenize to.
SignedAs(before, n) ==
    IF ~before.ok \/ n > IntMax THEN tokens = <<>>
    ELSE IF SignPlace(before.tokens)
    THEN tokens = Append(before.tokens, Number(0 - n))
    ELSE tokens = before.tokens \o <<Symbol("-"), Number(n)>>

\* C9: a - immediately followed by a digit becomes the sign of a single
\* negative Number token if and only if it is at the start of the line
\* or the token emitted before it (blanks skipped) is Colon or a Symbol
\* of one of the 11 verb or 2 adverb characters; after a Number, a Global
\* or another Symbol it is emitted as Symbol('-') followed by a separate
\* non-negative Number (digits that fit an i64; no token is emitted for
\* a line with digits that do not).
C9_NegativeSign ==
    (nlines = MaxLines /\ IsTokenized(line) /\ "-" \in {line[i] : i \in 1..Len(line)})
        => SignedAs(tokenize_line(SubSeq(line, 1, LastDash(line) - 1)),
                    Written(SubSeq(line, LastDash(line) + 1, Len(line)),
                            Len(line) - LastDash(line)))

\* a -5: the - after a Global, a blank between, is a Symbol.
C9_Witness ==
    /\ line = <<"a", " ", "-", "5">>
    /\ tokens = <<Global("a"), Symbol("-"), Number(5)>>
    /\ result = Atom(-5)

\* ---------------------------------------------------------------- C10

\* The distinct vector storages bound to global slots, in a runtime g.
Storages(g) == {g[i].ptr : i \in {j \in Slots : g[j].tag = "Vector"}}

\* The length of storage p: that of the vector of a slot bound to it.
StorageLen(g, p) == Len(g[CHOOSE i \in Slots : g[i].tag = "Vector" /\ g[i].ptr = p].vec)

RECURSIVE SumLen(_, _)
SumLen(g, ps) ==
    IF ps = {} THEN 0
    ELSE LET p == CHOOSE q \in ps : TRUE IN StorageLen(g, p) + SumLen(g, ps \ {p})

\* C10: workspace_bytes is 8 times the summed lengths of the distinct
\* storages bound to global slots, and `\w` prints it; a global bound by
\* evaluating a bare global shares the storage (counted once); a vector
\* computed anew has storage of its own, equal contents or not (counted
\* again); atoms add nothing; rebinding a global leaves every other
\* global, an alias of its old value included, as it was.
C10_WorkspaceCountsStorages ==
    /\ [](workspace_bytes(globals) = 8 * SumLen(globals, Storages(globals)))
    /\ [](line = LnWorkspace
            => stdout = Decimal(8 * SumLen(globals, Storages(globals))) \o <<"\n">>)
    /\ [][line' = LnAlias /\ nlines' = nlines + 1 /\ globals[0].tag = "Vector"
            => /\ globals'[1] = globals[0]
               /\ globals'[0] = globals[0]
               /\ workspace_bytes(globals') = 8 * Len(globals[0].vec)]_vars
    /\ [][line' = LnAssignCatB /\ nlines' = nlines + 1 /\ IsVec(globals[0], <<1, 2, 3>>)
            => /\ IsVec(globals'[1], <<1, 2, 3>>)
               /\ globals'[1].ptr # globals'[0].ptr
               /\ workspace_bytes(globals') = 48]_vars
    /\ [][\A p \in Storages(globals) \cap Storages(globals') :
            \A i, j \in Slots :
                globals[i].tag = "Vector" /\ globals[i].ptr = p
                /\ globals'[j].tag = "Vector" /\ globals'[j].ptr = p
                => globals'[j].vec = globals[i].vec]_vars
    /\ [][line' \in {LnAssignAtom, LnAssignEmpty, LnAssignCat} /\ nlines' = nlines + 1
            => \A i \in Slots \ {0} : globals'[i] = globals[i]]_vars

\* `a:1,2,3`, `b:a`, `\w`: one storage of three elements, 24 bytes.
C10_Witness ==
    /\ line = LnWorkspace
    /\ IsVec(globals[0], <<1, 2, 3>>)
    /\ globals[1] = globals[0]
    /\ stdout = <<"2", "4", "\n">>

\* ---------------------------------------------------------------- C11

\* The line is left f a:rest, f a dyadic verb.
IsLeftLine(toks) ==
    /\ Len(toks) >= 5
    /\ IsVerb(toks[2]) /\ toks[3] = Global("a") /\ toks[4] = Colon

\* The line toks took the globals from before to after and came to res
\* with the diagnostics d and the applications c: f was given the left
\* token's value in before and what the line bound a to.
LeftFromBefore(before, toks, after, res, d, c) ==
    IF IsNoun(toks[1])
    THEN Same(res, DYADIC_VERBS(verb_index(toks[2].byte),
                                noun_from_token(before, toks[1]), after[0]).v)
    ELSE res = Error /\ d = ParseDiag(44) /\ c = <<>> /\ after = before

\* C11: in left op rest the left token is converted before rest is
\* evaluated: a global on the left stands for its binding from before
\* the line, whatever rest assigns to it (from a = 0, a+a:5 is 5 and
\* leaves a = 5); a left token that is no noun is a parse error and rest
\* is not evaluated, so it assigns nothing.
C11_LeftBeforeRest ==
    [][IsLeftLine(tokens')
         => LeftFromBefore(globals, tokens', globals', result', diags', calls')]_vars

\* a+a:5 from a = 0 (the only a of 0, 2, -1 for which old a + 5 is 5).
C11_Witness ==
    /\ line = <<"a", "+", "a", ":", "5">>
    /\ result = Atom(5)
    /\ globals[0] = Atom(5)

\* ---------------------------------------------------------------- C12

\* What f yields at position k (from 2) of the scan of v with output out.
YieldsAt(fi, out, v, k) == DYADIC_VERBS(fi, Atom(out[k - 1]), Atom(v[k])).v

\* Every application up to position i yielded an atom.
AtomsThrough(fi, out, v, i) == \A k \in 2..i : YieldsAt(fi, out, v, k).tag = "Atom"

\* The line's value is the scan of v by f as the claim describes it.
ScannedAs(fi, v) ==
    /\ result.tag = "Vector"
    /\ Len(result.vec) = Len(v)
    /\ result.vec[1] = v[1]
    /\ \A i \in 2..Len(v) :
          IF AtomsThrough(fi, result.vec, v, i)
          THEN result.vec[i] = YieldsAt(fi, result.vec, v, i).int
          ELSE result.vec[i] = 0

IsScanOf(v) == IsAdverbLine("\\") /\ v.tag = "Vector" /\ v.vec # <<>>

\* C12 as stated: f\v for a non-empty vector v of length n is always a
\* Vector of length n and never Error, with out[0] = v[0], out[i] =
\* f(out[i-1], v[i]) while every application so far yielded an atom, and
\* out[j] = 0 from the first application that did not.
C12_ScanGivesVector ==
    IsScanOf(noun_from_token(globals, tokens[3]))
        => ScannedAs(verb_index(tokens[1].byte), noun_from_token(globals, tokens[3]).vec)

\* ---------------------------------------------------------------- C13

\* The line is name : expression.
IsAssignment(toks) == Len(toks) >= 2 /\ toks[1].type = "Global" /\ toks[2] = Colon

\* The slot the line names holds in after what it held in before.
NamedSlotKept(before, toks, after) ==
    after[SlotOf(toks[1].byte)] = before[SlotOf(toks[1].byte)]

====
